---------------------------- MODULE Spec2Model ----------------------------
(***************************************************************************)
(* Model of api_server.py: the HTTP monitoring API of the Ingest Engine.   *)
(* Text (request targets, log lines, messages) is a sequence of one-       *)
(* character strings, so that prefix tests, splitting, trimming and the    *)
(* log pattern are computed character by character as the code does.       *)
(***************************************************************************)
EXTENDS Integers, Sequences, FiniteSets, TLC

(* ------------------------------ text ---------------------------------- *)

\* str.startswith / a literal at position i (1-based) of s
HasPrefixAt(s, p, i) ==
    /\ i >= 1
    /\ i + Len(p) - 1 <= Len(s)
    /\ \A k \in 1..Len(p) : s[i + k - 1] = p[k]

StartsWith(s, p) == HasPrefixAt(s, p, 1)

\* the characters str.strip() removes (those the modelled inputs contain)
Whitespace == {" ", "\t"}

RECURSIVE LStrip(_)
LStrip(s) ==
    IF s # <<>> /\ Head(s) \in Whitespace THEN LStrip(Tail(s)) ELSE s

RECURSIVE RStrip(_)
RStrip(s) ==
    IF s # <<>> /\ s[Len(s)] \in Whitespace
    THEN RStrip(SubSeq(s, 1, Len(s) - 1))
    ELSE s

\* str.strip()
Strip(s) == RStrip(LStrip(s))

\* the least position at or after i where p occurs in s, 0 when there is none
RECURSIVE FindFrom(_, _, _)
FindFrom(s, p, i) ==
    IF i + Len(p) - 1 > Len(s) THEN 0
    ELSE IF HasPrefixAt(s, p, i) THEN i
    ELSE FindFrom(s, p, i + 1)

\* s.split(sep)[-1]: split scans left to right over non-overlapping
\* occurrences of sep; the last piece is what follows the last one found
RECURSIVE SplitLast(_, _)
SplitLast(s, sep) ==
    LET i == FindFrom(s, sep, 1)
    IN  IF i = 0 THEN s
        ELSE SplitLast(SubSeq(s, i + Len(sep), Len(s)), sep)

\* urlparse(target).path for an origin-form target: the text before the
\* first "?" or "#"
RECURSIVE UrlPath(_)
UrlPath(t) ==
    IF t = <<>> \/ Head(t) \in {"?", "#"} THEN <<>>
    ELSE <<Head(t)>> \o UrlPath(Tail(t))


(* ------------------------- concrete strings --------------------------- *)

\* log lines the modelled files and the process's own logging contain
LnError == "2024-01-15 10:30:00,123 - ERROR - Failed "
LnInfo == "2024-01-15 10:30:01,456 - INFO - ok"
LnDebug == "2024-01-15 10:30:02,789 - DEBUG - dbg"
LnTrace == "  File x"
LnBlank == "  "
LnLogsCleared == "2024-01-15 10:31:00,000 - INFO - Logs cleared via API"
LnHistoryCleared == "2024-01-15 10:31:00,000 - INFO - History cleared via API"
LnApiError == "2024-01-15 10:31:00,000 - ERROR - API error handling"

\* request targets
TargetNames ==
    { "/", "/api/status", "/api/history", "/api/logs", "/api/logs?tail=1",
      "/api/health", "/api/report", "/api/nope", "/api/statusx",
      "/api/folders/", "/api/folders/watch", "/api/folders/processing",
      "/api/folders/processed", "/api/folders/output", "/api/folders/error",
      "/api/folders/bogus", "/api/folders/watch/",
      "/api/folders/x/api/folders/watch" }

FolderNames == { "watch", "processing", "processed", "output", "error" }

\* the characters of each string the model uses
Chars(s) ==
    CASE s = "2024-01-15 10:30:00,123 - ERROR - Failed " -> <<"2","0","2","4","-","0","1","-","1","5"," ","1","0",":","3","0",":","0","0",",","1","2","3"," ","-"," ","E","R","R","O","R"," ","-"," ","F","a","i","l","e","d"," ">>
      [] s = "2024-01-15 10:30:01,456 - INFO - ok" -> <<"2","0","2","4","-","0","1","-","1","5"," ","1","0",":","3","0",":","0","1",",","4","5","6"," ","-"," ","I","N","F","O"," ","-"," ","o","k">>
      [] s = "2024-01-15 10:30:02,789 - DEBUG - dbg" -> <<"2","0","2","4","-","0","1","-","1","5"," ","1","0",":","3","0",":","0","2",",","7","8","9"," ","-"," ","D","E","B","U","G"," ","-"," ","d","b","g">>
      [] s = "  File x" -> <<" "," ","F","i","l","e"," ","x">>
      [] s = "  " -> <<" "," ">>
      [] s = "2024-01-15 10:31:00,000 - INFO - Logs cleared via API" -> <<"2","0","2","4","-","0","1","-","1","5"," ","1","0",":","3","1",":","0","0",",","0","0","0"," ","-"," ","I","N","F","O"," ","-"," ","L","o","g","s"," ","c","l","e","a","r","e","d"," ","v","i","a"," ","A","P","I">>
      [] s = "2024-01-15 10:31:00,000 - INFO - History cleared via API" -> <<"2","0","2","4","-","0","1","-","1","5"," ","1","0",":","3","1",":","0","0",",","0","0","0"," ","-"," ","I","N","F","O"," ","-"," ","H","i","s","t","o","r","y"," ","c","l","e","a","r","e","d"," ","v","i","a"," ","A","P","I">>
      [] s = "2024-01-15 10:31:00,000 - ERROR - API error handling" -> <<"2","0","2","4","-","0","1","-","1","5"," ","1","0",":","3","1",":","0","0",",","0","0","0"," ","-"," ","E","R","R","O","R"," ","-"," ","A","P","I"," ","e","r","r","o","r"," ","h","a","n","d","l","i","n","g">>
      [] s = "/" -> <<"/">>
      [] s = "/api/status" -> <<"/","a","p","i","/","s","t","a","t","u","s">>
      [] s = "/api/history" -> <<"/","a","p","i","/","h","i","s","t","o","r","y">>
      [] s = "/api/logs" -> <<"/","a","p","i","/","l","o","g","s">>
      [] s = "/api/logs?tail=1" -> <<"/","a","p","i","/","l","o","g","s","?","t","a","i","l","=","1">>
      [] s = "/api/health" -> <<"/","a","p","i","/","h","e","a","l","t","h">>
      [] s = "/api/report" -> <<"/","a","p","i","/","r","e","p","o","r","t">>
      [] s = "/api/nope" -> <<"/","a","p","i","/","n","o","p","e">>
      [] s = "/api/statusx" -> <<"/","a","p","i","/","s","t","a","t","u","s","x">>
      [] s = "/api/folders/" -> <<"/","a","p","i","/","f","o","l","d","e","r","s","/">>
      [] s = "/api/folders/watch" -> <<"/","a","p","i","/","f","o","l","d","e","r","s","/","w","a","t","c","h">>
      [] s = "/api/folders/processing" -> <<"/","a","p","i","/","f","o","l","d","e","r","s","/","p","r","o","c","e","s","s","i","n","g">>
      [] s = "/api/folders/processed" -> <<"/","a","p","i","/","f","o","l","d","e","r","s","/","p","r","o","c","e","s","s","e","d">>
      [] s = "/api/folders/output" -> <<"/","a","p","i","/","f","o","l","d","e","r","s","/","o","u","t","p","u","t">>
      [] s = "/api/folders/error" -> <<"/","a","p","i","/","f","o","l","d","e","r","s","/","e","r","r","o","r">>
      [] s = "/api/folders/bogus" -> <<"/","a","p","i","/","f","o","l","d","e","r","s","/","b","o","g","u","s">>
      [] s = "/api/folders/watch/" -> <<"/","a","p","i","/","f","o","l","d","e","r","s","/","w","a","t","c","h","/">>
      [] s = "/api/folders/x/api/folders/watch" -> <<"/","a","p","i","/","f","o","l","d","e","r","s","/","x","/","a","p","i","/","f","o","l","d","e","r","s","/","w","a","t","c","h">>
      [] s = "watch" -> <<"w","a","t","c","h">>
      [] s = "processing" -> <<"p","r","o","c","e","s","s","i","n","g">>
      [] s = "processed" -> <<"p","r","o","c","e","s","s","e","d">>
      [] s = "output" -> <<"o","u","t","p","u","t">>
      [] s = "error" -> <<"e","r","r","o","r">>
      [] s = "a.mov" -> <<"a",".","m","o","v">>
      [] s = ".DS_Store" -> <<".","D","S","_","S","t","o","r","e">>
      [] s = "sub" -> <<"s","u","b">>

(* --------------------------- log pattern ------------------------------ *)

Digits == {"0", "1", "2", "3", "4", "5", "6", "7", "8", "9"}

\* \d{4}-\d{2}-\d{2} \d{2}:\d{2}:\d{2},\d{3} with "9" standing for \d
TimestampShape == <<"9","9","9","9","-","9","9","-","9","9"," ","9","9",":","9","9",":","9","9",",","9","9","9">>

LevelSep == <<" ","-"," ">>

LevelNames == { <<"I","N","F","O">>, <<"W","A","R","N","I","N","G">>, <<"E","R","R","O","R">> }

MatchesTimestamp(line) ==
    /\ Len(line) >= Len(TimestampShape)
    /\ \A i \in 1..Len(TimestampShape) :
          IF TimestampShape[i] = "9" THEN line[i] \in Digits
          ELSE line[i] = TimestampShape[i]

\* log_pattern.match(line): the line is given without its line terminator,
\* which "$" lets the pattern ignore and "." never matches
LogMatch(line) ==
    LET n  == Len(TimestampShape)
        lv == { l \in LevelNames :
                  /\ HasPrefixAt(line, LevelSep, n + 1)
                  /\ HasPrefixAt(line, l, n + Len(LevelSep) + 1)
                  /\ HasPrefixAt(line, LevelSep, n + Len(LevelSep) + Len(l) + 1) }
    IN  IF MatchesTimestamp(line) /\ lv # {}
        THEN LET l == CHOOSE l \in lv : TRUE
                 k == n + 2 * Len(LevelSep) + Len(l)
             IN  [matched |-> TRUE,
                  timestamp |-> SubSeq(line, 1, n),
                  level |-> l,
                  rest |-> SubSeq(line, k + 1, Len(line))]
        ELSE [matched |-> FALSE, timestamp |-> <<>>, level |-> <<>>, rest |-> <<>>]

(* ------------------------- log reconstruction ------------------------- *)

\* the number of raw lines read from the tail of the file
TailWindow == 100

\* a variant that reads no window: the whole file is reconstructed
TailLinesWholeFile(all_lines) == all_lines

\* all_lines[-100:]
TailLines(all_lines) ==
    IF Len(all_lines) <= TailWindow THEN all_lines
    ELSE SubSeq(all_lines, Len(all_lines) - TailWindow + 1, Len(all_lines))

\* a variant that lacks the test of line.strip(): a blank line adds a newline
ReconstructStepKeepsBlank(logs, line) ==
    LET match == LogMatch(line)
    IN  IF match.matched
        THEN Append(logs, [timestamp |-> match.timestamp,
                           level |-> match.level,
                           message |-> Strip(match.rest)])
        ELSE IF logs # <<>>
        THEN [logs EXCEPT ![Len(logs)].message = @ \o <<"\n">> \o Strip(line)]
        ELSE logs

\* one turn of the for loop over the window: logs is the list built so far
ReconstructStep(logs, line) ==
    LET match == LogMatch(line)
    IN  IF match.matched
        THEN Append(logs, [timestamp |-> match.timestamp,
                           level |-> match.level,
                           message |-> Strip(match.rest)])
        ELSE IF logs # <<>> /\ Strip(line) # <<>>
        THEN [logs EXCEPT ![Len(logs)].message = @ \o <<"\n">> \o Strip(line)]
        ELSE logs

\* the for loop over lines[lo..hi], in order, starting from logs. The range
\* is halved, and the list after the first half is computed before the loop
\* goes on, so that the evaluation nests only a few levels deep.
RECURSIVE ReconstructRange(_, _, _, _)
ReconstructRange(logs, lines, lo, hi) ==
    IF lo > hi THEN logs
    ELSE IF lo = hi THEN ReconstructStep(logs, lines[lo])
    ELSE LET mid == (lo + hi) \div 2
             sofar == ReconstructRange(logs, lines, lo, mid)
         IN  IF sofar = <<>>
             THEN ReconstructRange(<<>>, lines, mid + 1, hi)
             ELSE ReconstructRange(sofar, lines, mid + 1, hi)

\* the body of _handle_logs between readlines() and the response
ReconstructLogs(all_lines) ==
    LET window == TailLines(all_lines)
    IN  ReconstructRange(<<>>, window, 1, Len(window))


(* ------------------------------ JSON ---------------------------------- *)

\* JSON values: an array of values, or an object with its members
JArray(items) == [array |-> items]
JObject(members) == [object |-> members]

\* file texts the external pipeline leaves behind
TxtEmptyArray == "[]"
TxtHistory == "[{\"file\": \"a.mov\"}]"
TxtStatus == "{\"status\": \"processing\", \"file\": \"a.mov\"}"
TxtTruncated == ""
TxtMalformed == "[{"
TxtNotUtf8 == "<bytes that are not UTF-8>"

HistoryTexts == { TxtEmptyArray, TxtHistory, TxtMalformed, TxtNotUtf8 }
StatusTexts == { TxtStatus, TxtMalformed }

\* open(path, 'r') followed by json.load(f): the parsed value, or the
\* exception raised
JsonLoad(file) ==
    CASE ~file.exists -> [exc |-> "FileNotFoundError", value |-> JArray(<<>>)]
      [] file.text = TxtEmptyArray -> [exc |-> "", value |-> JArray(<<>>)]
      [] file.text = TxtHistory -> [exc |-> "",
                                    value |-> JArray(<<JObject([file |-> "a.mov"])>>)]
      [] file.text = TxtStatus ->
            [exc |-> "",
             value |-> JObject([status |-> "processing", file |-> "a.mov"])]
      [] file.text = TxtNotUtf8 -> [exc |-> "UnicodeDecodeError", value |-> JArray(<<>>)]
      [] OTHER -> [exc |-> "JSONDecodeError", value |-> JArray(<<>>)]

\* a value json.dumps() rejects with TypeError: a report path that is an
\* object (such as a path object) rather than a string
StrPath == [type |-> "str", value |-> "~/ingest/output/report.pdf"]
PathObject == [type |-> "PosixPath", value |-> "~/ingest/output/report.pdf"]

\* json.dumps(data) succeeds
Serialisable(data) == data # JObject([success |-> TRUE, path |-> PathObject])

(* ---------------------------- responses ------------------------------- *)

CorsHeaders ==
    { <<"Access-Control-Allow-Origin", "*">>,
      <<"Access-Control-Allow-Methods", "GET, DELETE, OPTIONS">>,
      <<"Access-Control-Allow-Headers", "Content-Type">> }

\* a variant that sends the content type alone
ContentTypeOnly == { <<"Content-Type", "application/json">> }

\* the headers _send_json_response sends
JsonHeaders == { <<"Content-Type", "application/json">> } \cup CorsHeaders

\* the headers BaseHTTPRequestHandler.send_error sends
ErrorPageHeaders ==
    { <<"Content-Type", "text/html;charset=utf-8">>, <<"Connection", "close">> }

\* what is written to the connection: a status line with its headers (sent
\* by end_headers), and a body
HeadEvent(status, headers) ==
    [kind |-> "head", status |-> status, headers |-> headers, data |-> JArray(<<>>)]

BodyEvent(data) ==
    [kind |-> "body", status |-> 0, headers |-> {}, data |-> data]

IdleStatus ==
    JObject([status |-> "idle", file |-> "None", progress |-> 0, stage |-> "Idle"])

\* {"error": <message>}: the message is a literal text, with the text of the
\* exception after it where the code formats one in
ErrorBody(message) == JObject([error |-> message])

NotFound == ErrorBody(<<"Not found">>)

Discovery ==
    JObject([message |-> "Ingest Engine API",
             endpoints |-> <<"/api/status", "/api/history", "/api/logs",
                             "/api/folders/{name}", "/api/health", "/api/report">>])

(* ------------------------------ state --------------------------------- *)

VARIABLES
    statusFile,     \* [exists, text]: the status file
    historyFile,    \* [exists, text]: the history file
    logFile,        \* [exists, lines]: ingest_engine.log, a sequence of lines
    logSink,        \* "file" when the process's logging writes to logFile
    generator,      \* TRUE when generate_pdf_report was imported
    backlog,        \* requests sent and not yet accepted, oldest first
    handlers,       \* id -> the state of each request being handled
    served,         \* the handled requests with what was written, in order
    sent,           \* the number of requests sent so far
    extHistWrites,  \* the number of pipeline writes to the history file
    extLogAppends   \* the number of pipeline appends to the log file

vars ==
    << statusFile, historyFile, logFile, logSink, generator, backlog,
       handlers, served, sent, extHistWrites, extLogAppends >>

files == << statusFile, historyFile, logFile >>
env == << logSink, generator >>
counters == << extHistWrites, extLogAppends >>

(* ------------------------------ bounds -------------------------------- *)

MaxBacklog == 2
MaxReqLogs == 2
MaxReqFiles == 2
MaxReqRoute == 1
MaxShortLog == 2
MaxExtWrites == 1

(* --------------------------- configuration ---------------------------- *)

\* _config.get('Paths', name, fallback=None): "" stands for a missing or
\* empty entry
ConfiguredPath(name) ==
    CASE name = "watch" -> "~/ingest/watch"
      [] name = "processing" -> "~/ingest/processing"
      [] name = "processed" -> "~/ingest/processed"
      [] name = "output" -> "~/ingest/output"
      [] name = "error" -> ""

\* what the file system holds at an expanded folder path
DirState(path) ==
    CASE path = "~/ingest/watch" -> "dir"
      [] path = "~/ingest/output" -> "dir"
      [] path = "~/ingest/processed" -> "unlistable"
      [] OTHER -> "missing"

\* os.listdir(path) with os.path.isfile and os.stat of each entry
DirEntries(path) ==
    IF path = "~/ingest/watch"
    THEN << [name |-> "a.mov", isfile |-> TRUE, size |-> 7, mtime |-> 1],
            [name |-> ".DS_Store", isfile |-> TRUE, size |-> 1, mtime |-> 2],
            [name |-> "sub", isfile |-> FALSE, size |-> 0, mtime |-> 3] >>
    ELSE <<>>

\* the loop of _handle_folder over os.listdir(path)
ListFiles(path) ==
    LET keep(e) == e.isfile /\ ~StartsWith(Chars(e.name), <<".">>)
        stat(e) == [name |-> e.name, size |-> e.size,
                    modified_time |-> <<"utc-iso", e.mtime>>]
    IN  [i \in 1..Len(SelectSeq(DirEntries(path), keep)) |->
            stat(SelectSeq(DirEntries(path), keep)[i])]

(* --------------------------- the server ------------------------------- *)

\* the handler object created for an accepted request
NewHandler(req) ==
    [method |-> req.method, target |-> req.target, pc |-> "dispatch",
     folder_name |-> <<>>, all_lines |-> <<>>, pending |-> JArray(<<>>),
     ctx |-> [catches |-> "router", label |-> ""],
     excs |-> <<>>, wire |-> <<>>, openedAt |-> 0]

\* the except clause around a call of _send_json_response
InRouterTry == [catches |-> "router", label |-> ""]
InRouterExcept == [catches |-> "none", label |-> ""]
InHandlerTry(label) == [catches |-> "Exception", label |-> label]
InHandlerIoTry(label) == [catches |-> "IOError", label |-> label]

\* _send_json_response up to end_headers(): the status line and the headers
\* are written; json.dumps(data) and the body write come after
Respond(h, status, data, ctx) ==
    [h EXCEPT !.wire = Append(@, HeadEvent(status, JsonHeaders)),
              !.pending = data, !.ctx = ctx, !.pc = "send_body"]

Raised(h, exc) == [h EXCEPT !.excs = Append(@, exc)]

\* the except clause of do_GET and do_DELETE, after logging.error
RouterExcept(h, exc) ==
    Respond(Raised(h, exc), 500, ErrorBody(<<exc>>), InRouterExcept)

\* a record the process logs, when its logging writes to the log file
LogEmit(file, line) ==
    IF logSink = "file" /\ file.exists
    THEN [file EXCEPT !.lines = Append(@, line)]
    ELSE file

\* handle_one_request returns: the request is done
Finish(id, h) ==
    /\ served' = Append(served,
          [method |-> h.method, target |-> h.target, wire |-> h.wire,
           excs |-> h.excs, openedAt |-> h.openedAt,
           histAt |-> extHistWrites, logAt |-> extLogAppends])
    /\ handlers' = [i \in DOMAIN handlers \ {id} |-> handlers[i]]

Step(id, h) == handlers' = [handlers EXCEPT ![id] = h]

At(id, pc) == id \in DOMAIN handlers /\ handlers[id].pc = pc

\* a client sends a request: its connection waits to be accepted
ClientSend(req, max) ==
    /\ sent < max
    /\ Len(backlog) < MaxBacklog
    /\ backlog' = Append(backlog, req)
    /\ sent' = sent + 1
    /\ UNCHANGED << files, env, counters, handlers, served >>

\* HTTPServer.serve_forever in one thread: a request is accepted only once
\* the handling of the previous one has returned
AllHandlersReturned == DOMAIN handlers = {}

\* a variant with a thread per request: accepting never waits
AcceptsWhileHandling == TRUE

ServerCanAccept == AllHandlersReturned

AcceptRequest ==
    /\ backlog # <<>>
    /\ ServerCanAccept
    /\ LET id == Len(served) + Cardinality(DOMAIN handlers) + 1
       IN  handlers' = [i \in DOMAIN handlers \cup {id} |->
                          IF i = id THEN NewHandler(Head(backlog))
                          ELSE handlers[i]]
    /\ backlog' = Tail(backlog)
    /\ UNCHANGED << files, env, counters, served, sent >>

\* folder_name = path.split('/api/folders/')[-1]
FolderNameOf(path) == SplitLast(path, Chars("/api/folders/"))

\* a variant that matches /api/status by prefix
RouteGETStatusPrefix(h, path) ==
    CASE StartsWith(path, Chars("/api/status")) -> [h EXCEPT !.pc = "status_exists"]
      [] path = Chars("/api/history") -> [h EXCEPT !.pc = "history_exists"]
      [] path = Chars("/api/logs") -> [h EXCEPT !.pc = "logs_exists"]
      [] StartsWith(path, Chars("/api/folders/")) ->
            [h EXCEPT !.pc = "folder", !.folder_name = FolderNameOf(path)]
      [] path = Chars("/api/health") ->
            Respond(h, 200, JObject([status |-> "ok"]), InRouterTry)
      [] path = Chars("/api/report") -> [h EXCEPT !.pc = "report"]
      [] path = Chars("/") -> Respond(h, 200, Discovery, InRouterTry)
      [] OTHER -> Respond(h, 404, NotFound, InRouterTry)

\* the if/elif chain of do_GET
RouteGET(h, path) ==
    CASE path = Chars("/api/status") -> [h EXCEPT !.pc = "status_exists"]
      [] path = Chars("/api/history") -> [h EXCEPT !.pc = "history_exists"]
      [] path = Chars("/api/logs") -> [h EXCEPT !.pc = "logs_exists"]
      [] StartsWith(path, Chars("/api/folders/")) ->
            [h EXCEPT !.pc = "folder", !.folder_name = FolderNameOf(path)]
      [] path = Chars("/api/health") ->
            Respond(h, 200, JObject([status |-> "ok"]), InRouterTry)
      [] path = Chars("/api/report") -> [h EXCEPT !.pc = "report"]
      [] path = Chars("/") -> Respond(h, 200, Discovery, InRouterTry)
      [] OTHER -> Respond(h, 404, NotFound, InRouterTry)

DoGET(id) ==
    /\ At(id, "dispatch")
    /\ handlers[id].method = "GET"
    /\ Step(id, RouteGET(handlers[id], UrlPath(Chars(handlers[id].target))))
    /\ UNCHANGED << files, env, counters, backlog, served, sent >>

\* the if/elif chain of do_DELETE
RouteDELETE(h, path) ==
    CASE path = Chars("/api/history") -> [h EXCEPT !.pc = "clear_history_open"]
      [] path = Chars("/api/logs") -> [h EXCEPT !.pc = "clear_logs"]
      [] OTHER -> Respond(h, 404, NotFound, InRouterTry)

DoDELETE(id) ==
    /\ At(id, "dispatch")
    /\ handlers[id].method = "DELETE"
    /\ Step(id, RouteDELETE(handlers[id], UrlPath(Chars(handlers[id].target))))
    /\ UNCHANGED << files, env, counters, backlog, served, sent >>

\* do_OPTIONS: a status line and the cross-origin headers, no body
DoOPTIONS(id) ==
    /\ At(id, "dispatch")
    /\ handlers[id].method = "OPTIONS"
    /\ LET h == handlers[id]
       IN  Finish(id, [h EXCEPT !.wire = Append(@, HeadEvent(200, CorsHeaders))])
    /\ UNCHANGED << files, env, counters, backlog, sent >>

\* the methods the class defines a do_<METHOD> for
DefinedMethods == { "GET", "DELETE", "OPTIONS" }

\* a method the class defines no do_<METHOD> for: the base class answers
\* with send_error(501), an HTML error page
UnsupportedMethod(id) ==
    /\ At(id, "dispatch")
    /\ handlers[id].method \notin DefinedMethods
    /\ LET h == handlers[id]
       IN  Finish(id, [h EXCEPT !.wire =
              @ \o << HeadEvent(501, ErrorPageHeaders),
                      BodyEvent(JObject([html |-> "Unsupported method"])) >>])
    /\ UNCHANGED << files, env, counters, backlog, sent >>

(* ---------------------------- handlers -------------------------------- *)

Absent == [exists |-> FALSE, text |-> ""]
Holding(text) == [exists |-> TRUE, text |-> text]

\* the try block shared by _handle_status and _handle_history: open, json.load,
\* send; JSONDecodeError and IOError are caught there, anything else reaches
\* the router
ReadJsonFile(h, file, label) ==
    LET r == JsonLoad(file)
    IN  CASE r.exc = "" -> Respond(h, 200, r.value, InHandlerIoTry(label))
          [] r.exc \in {"JSONDecodeError", "FileNotFoundError"} ->
                Respond(Raised(h, r.exc), 500, ErrorBody(<<label, r.exc>>),
                        InRouterTry)
          [] OTHER -> RouterExcept(h, r.exc)

\* whether ReadJsonFile ends in the router's except clause, which logs
ReachesRouter(file) ==
    JsonLoad(file).exc \notin {"", "JSONDecodeError", "FileNotFoundError"}

\* _handle_status: os.path.exists(status_path)
StatusExists(id) ==
    /\ At(id, "status_exists")
    /\ LET h == handlers[id]
       IN  Step(id, IF ~statusFile.exists
                    THEN Respond(h, 200, IdleStatus, InRouterTry)
                    ELSE [h EXCEPT !.pc = "status_read"])
    /\ UNCHANGED << files, env, counters, backlog, served, sent >>

\* _handle_status: the try block
StatusRead(id) ==
    /\ At(id, "status_read")
    /\ Step(id, ReadJsonFile(handlers[id], statusFile, "Error reading status"))
    /\ logFile' = IF ReachesRouter(statusFile)
                  THEN LogEmit(logFile, LnApiError) ELSE logFile
    /\ UNCHANGED << statusFile, historyFile, env, counters, backlog, served, sent >>

\* _handle_history: os.path.exists(history_path)
HistoryExists(id) ==
    /\ At(id, "history_exists")
    /\ LET h == handlers[id]
       IN  Step(id, IF ~historyFile.exists
                    THEN Respond(h, 200, JArray(<<>>), InRouterTry)
                    ELSE [h EXCEPT !.pc = "history_read"])
    /\ UNCHANGED << files, env, counters, backlog, served, sent >>

\* _handle_history: the try block
HistoryRead(id) ==
    /\ At(id, "history_read")
    /\ Step(id, ReadJsonFile(handlers[id], historyFile, "Error reading history"))
    /\ logFile' = IF ReachesRouter(historyFile)
                  THEN LogEmit(logFile, LnApiError) ELSE logFile
    /\ UNCHANGED << statusFile, historyFile, env, counters, backlog, served, sent >>

\* f.readlines(): the lines of the file, as text
ReadLines(file) == [i \in 1..Len(file.lines) |-> Chars(file.lines[i])]

\* _handle_logs: os.path.exists(log_path)
LogsExists(id) ==
    /\ At(id, "logs_exists")
    /\ LET h == handlers[id]
       IN  Step(id, IF ~logFile.exists
                    THEN Respond(h, 200, JArray(<<>>), InRouterTry)
                    ELSE [h EXCEPT !.pc = "logs_read"])
    /\ UNCHANGED << files, env, counters, backlog, served, sent >>

\* _handle_logs: the try block
LogsRead(id) ==
    /\ At(id, "logs_read")
    /\ LET h == handlers[id]
       IN  Step(id, IF logFile.exists
                    THEN Respond([h EXCEPT !.all_lines = logFile.lines], 200,
                                 JArray(ReconstructLogs(ReadLines(logFile))),
                                 InHandlerIoTry("Error reading logs"))
                    ELSE Respond(Raised(h, "FileNotFoundError"), 500,
                                 ErrorBody(<<"Error reading logs", "FileNotFoundError">>),
                                 InRouterTry))
    /\ UNCHANGED << files, env, counters, backlog, served, sent >>

\* _handle_clear_history: open(history_path, 'w') truncates the file, or fails
ClearHistoryOpen(id) ==
    /\ At(id, "clear_history_open")
    /\ \E ok \in BOOLEAN :
          LET h == handlers[id]
          IN  IF ok
              THEN /\ historyFile' = Holding(TxtTruncated)
                   /\ Step(id, [h EXCEPT !.pc = "clear_history_dump",
                                         !.openedAt = extHistWrites])
              ELSE /\ historyFile' = historyFile
                   /\ Step(id, Respond(Raised(h, "PermissionError"), 500,
                         ErrorBody(<<"Error clearing history", "PermissionError">>),
                         InRouterTry))
    /\ UNCHANGED << statusFile, logFile, env, counters, backlog, served, sent >>

\* a variant that writes nothing: the file stays as open() left it
AfterDumpNothingWritten(h) == { historyFile }

\* what the file holds once "[]" is written and the file closed: "[]" when
\* nobody wrote since the open; after a write by the pipeline in between,
\* either the pipeline's file (it replaced the file) or a mix of both texts
AfterDump(h) ==
    IF extHistWrites = h.openedAt THEN { Holding(TxtEmptyArray) }
    ELSE { historyFile, Holding(TxtMalformed) }

\* _handle_clear_history: json.dump([], f), close, logging.info, send
ClearHistoryDump(id) ==
    /\ At(id, "clear_history_dump")
    /\ LET h == handlers[id]
       IN  /\ historyFile' \in AfterDump(h)
           /\ Step(id, Respond(h, 200,
                 JObject([cleared |-> TRUE, message |-> "History cleared"]),
                 InHandlerTry("Error clearing history")))
    /\ logFile' = LogEmit(logFile, LnHistoryCleared)
    /\ UNCHANGED << statusFile, env, counters, backlog, served, sent >>

\* the log file after open(log_path, 'w'), f.truncate(0), close and
\* logging.info("Logs cleared via API"): a file that was absent is created,
\* and is not the file the process's logging holds open
AfterClearLogs(file) ==
    IF file.exists
    THEN LogEmit([exists |-> TRUE, lines |-> <<>>], LnLogsCleared)
    ELSE [exists |-> TRUE, lines |-> <<>>]

\* _handle_clear_logs
ClearLogs(id) ==
    /\ At(id, "clear_logs")
    /\ \E ok \in BOOLEAN :
          LET h == handlers[id]
          IN  IF ok
              THEN /\ logFile' = AfterClearLogs(logFile)
                   /\ Step(id, Respond([h EXCEPT !.openedAt = extLogAppends], 200,
                         JObject([cleared |-> TRUE, message |-> "Logs cleared"]),
                         InHandlerTry("Error clearing logs")))
              ELSE /\ logFile' = logFile
                   /\ Step(id, Respond(Raised(h, "PermissionError"), 500,
                         ErrorBody(<<"Error clearing logs", "PermissionError">>),
                         InRouterTry))
    /\ UNCHANGED << statusFile, historyFile, env, counters, backlog, served, sent >>

\* the keys of folder_map equal to folder_name
FolderKeys(folder_name) == { k \in FolderNames : Chars(k) = folder_name }

\* _handle_folder
FolderResponse(h) ==
    LET keys == FolderKeys(h.folder_name)
        key == CHOOSE k \in keys : TRUE
        path == ConfiguredPath(key)
    IN  IF keys = {} \/ path = ""
        THEN Respond(h, 400, ErrorBody(<<"Invalid folder">> \o h.folder_name),
                     InRouterTry)
        ELSE IF DirState(path) = "missing"
        THEN Respond(h, 404, ErrorBody(<<"Path not found", path>>), InRouterTry)
        ELSE IF DirState(path) = "unlistable"
        THEN Respond(Raised(h, "PermissionError"), 500,
                     ErrorBody(<<"Error listing folder", "PermissionError">>),
                     InRouterTry)
        ELSE Respond(h, 200,
                     JObject([folder |-> h.folder_name, files |-> ListFiles(path)]),
                     InHandlerTry("Error listing folder"))

HandleFolder(id) ==
    /\ At(id, "folder")
    /\ Step(id, FolderResponse(handlers[id]))
    /\ UNCHANGED << files, env, counters, backlog, served, sent >>

\* what generate_pdf_report(history_path, output_folder) can do: return a
\* path as a string or as an object, return a falsy value, or raise
GeneratorOutcomes == { "str", "object", "falsy", "raise" }

\* _handle_report
ReportResponse(h, outcome) ==
    IF ~generator
    THEN Respond(h, 501, ErrorBody(<<"PDF report generation not available">>),
                 InRouterTry)
    ELSE CASE outcome = "str" ->
                Respond(h, 200, JObject([success |-> TRUE, path |-> StrPath]),
                        InHandlerTry("Error generating report"))
           [] outcome = "object" ->
                Respond(h, 200, JObject([success |-> TRUE, path |-> PathObject]),
                        InHandlerTry("Error generating report"))
           [] outcome = "falsy" ->
                Respond(h, 400, JObject([success |-> FALSE,
                                         error |-> <<"No history to report">>]),
                        InHandlerTry("Error generating report"))
           [] OTHER ->
                Respond(Raised(h, "RuntimeError"), 500,
                        ErrorBody(<<"Error generating report", "RuntimeError">>),
                        InRouterTry)

HandleReport(id) ==
    /\ At(id, "report")
    /\ \E outcome \in GeneratorOutcomes :
          Step(id, ReportResponse(handlers[id], outcome))
    /\ UNCHANGED << files, env, counters, backlog, served, sent >>

\* _send_json_response after end_headers(): json.dumps(data), then the body
\* write. A TypeError of json.dumps is raised with the status line and the
\* headers already sent, and goes to the enclosing except clause
SendBody(id) ==
    /\ At(id, "send_body")
    /\ LET h == handlers[id]
           e == Raised(h, "TypeError")
       IN  IF Serialisable(h.pending)
           THEN /\ Finish(id, [h EXCEPT !.wire = Append(@, BodyEvent(h.pending))])
                /\ logFile' = logFile
           ELSE CASE h.ctx.catches = "Exception" ->
                       /\ Step(id, Respond(e, 500,
                             ErrorBody(<<h.ctx.label, "TypeError">>), InRouterTry))
                       /\ UNCHANGED << served, logFile >>
                  [] h.ctx.catches \in {"IOError", "router"} ->
                       /\ Step(id, RouterExcept(h, "TypeError"))
                       /\ logFile' = LogEmit(logFile, LnApiError)
                       /\ UNCHANGED served
                  [] OTHER ->
                       /\ Finish(id, e)
                       /\ logFile' = logFile
    /\ UNCHANGED << statusFile, historyFile, env, counters, backlog, sent >>

(* ----------------------- the external pipeline ------------------------ *)

\* the pipeline overwrites the status file
PipelineWriteStatus ==
    /\ \E t \in StatusTexts : statusFile' = Holding(t)
    /\ UNCHANGED << historyFile, logFile, env, counters, backlog, handlers,
                    served, sent >>

\* the pipeline removes the status file when it goes idle
PipelineRemoveStatus ==
    /\ statusFile.exists
    /\ statusFile' = Absent
    /\ UNCHANGED << historyFile, logFile, env, counters, backlog, handlers,
                    served, sent >>

\* the pipeline rewrites the history file
PipelineWriteHistory ==
    /\ extHistWrites < MaxExtWrites
    /\ \E t \in HistoryTexts : historyFile' = Holding(t)
    /\ extHistWrites' = extHistWrites + 1
    /\ UNCHANGED << statusFile, logFile, env, extLogAppends, backlog, handlers,
                    served, sent >>

\* the lines the pipeline appends to its log
PipelineLines == { LnInfo, LnTrace }

PipelineAppendLog ==
    /\ extLogAppends < MaxExtWrites
    /\ logFile.exists
    /\ \E l \in PipelineLines : logFile' = [logFile EXCEPT !.lines = Append(@, l)]
    /\ extLogAppends' = extLogAppends + 1
    /\ UNCHANGED << statusFile, historyFile, env, extHistWrites, backlog,
                    handlers, served, sent >>

(* --------------------------- initial states --------------------------- *)

NoLog == [exists |-> FALSE, lines |-> <<>>]
LogOf(lines) == [exists |-> TRUE, lines |-> lines]

LogAlphabet == { LnError, LnDebug, LnTrace, LnBlank }

\* every log of at most MaxShortLog lines
ShortLogs == UNION { [1..n -> LogAlphabet] : n \in 0..MaxShortLog }

\* logs of about TailWindow lines, with a header at or before the place where
\* the window starts
LongLogs ==
    { pre \o [i \in 1..n |-> fill] :
        pre \in { <<LnError>>, <<LnError, LnTrace>> },
        fill \in { LnTrace, LnInfo },
        n \in { TailWindow - 1, TailWindow } }

LogFiles == { NoLog } \cup { LogOf(l) : l \in ShortLogs \cup LongLogs }

HistoryFiles == { Absent } \cup { Holding(t) : t \in HistoryTexts }
StatusFiles == { Absent } \cup { Holding(t) : t \in StatusTexts }

ServerStarted ==
    /\ backlog = <<>>
    /\ handlers = [i \in {} |-> 0]
    /\ served = <<>>
    /\ sent = 0
    /\ extHistWrites = 0
    /\ extLogAppends = 0

Req(method, target) == [method |-> method, target |-> target]

(* ------------- the log endpoints over every modelled log -------------- *)

LogRequests == { Req("GET", "/api/logs"), Req("DELETE", "/api/logs") }

InitLogs ==
    /\ ServerStarted
    /\ statusFile = Absent
    /\ historyFile = Absent
    /\ logFile \in LogFiles
    /\ logSink \in { "file", "none" }
    /\ generator = FALSE

NextLogs ==
    \/ \E req \in LogRequests : ClientSend(req, MaxReqLogs)
    \/ AcceptRequest
    \/ \E id \in DOMAIN handlers : DoGET(id)
    \/ \E id \in DOMAIN handlers : DoDELETE(id)
    \/ \E id \in DOMAIN handlers : LogsExists(id)
    \/ \E id \in DOMAIN handlers : LogsRead(id)
    \/ \E id \in DOMAIN handlers : ClearLogs(id)
    \/ \E id \in DOMAIN handlers : SendBody(id)
    \/ PipelineAppendLog

SpecLogs == InitLogs /\ [][NextLogs]_vars

(* -------- the status and history endpoints beside the pipeline -------- *)

FileRequests ==
    { Req("GET", "/api/status"), Req("GET", "/api/history"),
      Req("DELETE", "/api/history") }

InitFiles ==
    /\ ServerStarted
    /\ statusFile \in StatusFiles
    /\ historyFile \in HistoryFiles
    /\ logFile = LogOf(<<LnInfo>>)
    /\ logSink = "file"
    /\ generator = FALSE

NextFiles ==
    \/ \E req \in FileRequests : ClientSend(req, MaxReqFiles)
    \/ AcceptRequest
    \/ \E id \in DOMAIN handlers : DoGET(id)
    \/ \E id \in DOMAIN handlers : DoDELETE(id)
    \/ \E id \in DOMAIN handlers : StatusExists(id)
    \/ \E id \in DOMAIN handlers : StatusRead(id)
    \/ \E id \in DOMAIN handlers : HistoryExists(id)
    \/ \E id \in DOMAIN handlers : HistoryRead(id)
    \/ \E id \in DOMAIN handlers : ClearHistoryOpen(id)
    \/ \E id \in DOMAIN handlers : ClearHistoryDump(id)
    \/ \E id \in DOMAIN handlers : SendBody(id)
    \/ PipelineWriteStatus
    \/ PipelineRemoveStatus
    \/ PipelineWriteHistory

SpecFiles == InitFiles /\ [][NextFiles]_vars

(* ------------------- every method on every target --------------------- *)

Methods == { "GET", "DELETE", "OPTIONS", "POST", "PUT" }

AllRequests == { Req(m, t) : m \in Methods, t \in TargetNames }

InitRoute ==
    /\ ServerStarted
    /\ statusFile \in { Absent, Holding(TxtStatus) }
    /\ historyFile \in { Holding(TxtHistory), Holding(TxtNotUtf8) }
    /\ logFile = LogOf(<<LnError, LnTrace>>)
    /\ logSink = "file"
    /\ generator \in BOOLEAN

NextRoute ==
    \/ \E req \in AllRequests : ClientSend(req, MaxReqRoute)
    \/ AcceptRequest
    \/ \E id \in DOMAIN handlers : DoGET(id)
    \/ \E id \in DOMAIN handlers : DoDELETE(id)
    \/ \E id \in DOMAIN handlers : DoOPTIONS(id)
    \/ \E id \in DOMAIN handlers : UnsupportedMethod(id)
    \/ \E id \in DOMAIN handlers : StatusExists(id)
    \/ \E id \in DOMAIN handlers : StatusRead(id)
    \/ \E id \in DOMAIN handlers : HistoryExists(id)
    \/ \E id \in DOMAIN handlers : HistoryRead(id)
    \/ \E id \in DOMAIN handlers : LogsExists(id)
    \/ \E id \in DOMAIN handlers : LogsRead(id)
    \/ \E id \in DOMAIN handlers : ClearHistoryOpen(id)
    \/ \E id \in DOMAIN handlers : ClearHistoryDump(id)
    \/ \E id \in DOMAIN handlers : ClearLogs(id)
    \/ \E id \in DOMAIN handlers : HandleFolder(id)
    \/ \E id \in DOMAIN handlers : HandleReport(id)
    \/ \E id \in DOMAIN handlers : SendBody(id)

SpecRoute == InitRoute /\ [][NextRoute]_vars

(* ----------------------- the whole program ---------------------------- *)

Init ==
    /\ ServerStarted
    /\ statusFile \in StatusFiles
    /\ historyFile \in HistoryFiles
    /\ logFile \in { NoLog, LogOf(<<>>), LogOf(<<LnError, LnTrace>>) }
    /\ logSink \in { "file", "none" }
    /\ generator \in BOOLEAN

Next ==
    \/ \E req \in AllRequests : ClientSend(req, MaxReqRoute)
    \/ AcceptRequest
    \/ \E id \in DOMAIN handlers : DoGET(id)
    \/ \E id \in DOMAIN handlers : DoDELETE(id)
    \/ \E id \in DOMAIN handlers : DoOPTIONS(id)
    \/ \E id \in DOMAIN handlers : UnsupportedMethod(id)
    \/ \E id \in DOMAIN handlers : StatusExists(id)
    \/ \E id \in DOMAIN handlers : StatusRead(id)
    \/ \E id \in DOMAIN handlers : HistoryExists(id)
    \/ \E id \in DOMAIN handlers : HistoryRead(id)
    \/ \E id \in DOMAIN handlers : LogsExists(id)
    \/ \E id \in DOMAIN handlers : LogsRead(id)
    \/ \E id \in DOMAIN handlers : ClearHistoryOpen(id)
    \/ \E id \in DOMAIN handlers : ClearHistoryDump(id)
    \/ \E id \in DOMAIN handlers : ClearLogs(id)
    \/ \E id \in DOMAIN handlers : HandleFolder(id)
    \/ \E id \in DOMAIN handlers : HandleReport(id)
    \/ \E id \in DOMAIN handlers : SendBody(id)
    \/ PipelineWriteStatus
    \/ PipelineRemoveStatus
    \/ PipelineWriteHistory
    \/ PipelineAppendLog

Spec == Init /\ [][Next]_vars

(* ====================================================================== *)
(*                       the log reconstruction                           *)
(* ====================================================================== *)

\* The entries of a sequence of raw lines, stated by position rather than by
\* the loop: one entry per line that matches the pattern (a header), whose
\* message is the header's captured text, trimmed, followed by the trimmed
\* text of each non-blank line between that header and the next header (or
\* the end), each after a newline.
Matches(lines) == [i \in 1..Len(lines) |-> LogMatch(Chars(lines[i]))]

\* the positions of the headers, given the match of every line
HeaderPositions(m) ==
    SelectSeq([i \in 1..Len(m) |-> i], LAMBDA i : m[i].matched)

\* the last line before the next header after position i, or the last line
BlockEnd(m, i) ==
    LET later == { k \in (i + 1)..Len(m) : m[k].matched }
    IN  IF later = {} THEN Len(m)
        ELSE (CHOOSE k \in later : \A j \in later : k <= j) - 1

\* what the lines from..to add to a message
RECURSIVE Continuation(_, _, _)
Continuation(lines, from, to) ==
    IF from > to THEN <<>>
    ELSE IF from = to
    THEN LET text == Strip(Chars(lines[from]))
         IN  IF text = <<>> THEN <<>> ELSE <<"\n">> \o text
    ELSE LET mid == (from + to) \div 2
         IN  Continuation(lines, from, mid) \o Continuation(lines, mid + 1, to)

EntryAt(lines, m, i) ==
    [timestamp |-> m[i].timestamp,
     level |-> m[i].level,
     message |-> Strip(m[i].rest) \o Continuation(lines, i + 1, BlockEnd(m, i))]

EntriesOf(lines) ==
    LET m == Matches(lines)
        at == HeaderPositions(m)
    IN  [k \in 1..Len(at) |-> EntryAt(lines, m, at[k])]

IsHeader(line) == LogMatch(Chars(line)).matched

\* the last n elements of a sequence, all of it when it has fewer
LastOf(seq, n) ==
    IF Len(seq) <= n THEN seq ELSE SubSeq(seq, Len(seq) - n + 1, Len(seq))

\* a GET /api/logs that has read the file and sent its status line: its
\* lines read are in all_lines, its result in pending
LogsAnswers ==
    { id \in DOMAIN handlers :
        /\ handlers[id].pc = "send_body"
        /\ handlers[id].method = "GET"
        /\ handlers[id].ctx = InHandlerIoTry("Error reading logs") }

\* C1, as claimed: GET /api/logs on an existing log file returns the last 100
\* of the entries reconstructed from the whole file, in file order.
C1_LastEntriesOfWholeFile ==
    \A id \in LogsAnswers :
        handlers[id].pending = JArray(LastOf(EntriesOf(handlers[id].all_lines), 100))

\* C1, amended: GET /api/logs on an existing log file returns, in file order,
\* every entry reconstructed from the last 100 raw lines of the file (the
\* whole file when it has fewer); lines before that window take no part.
C1_EntriesOfLastRawLines ==
    \A id \in LogsAnswers :
        handlers[id].pending = JArray(EntriesOf(LastOf(handlers[id].all_lines, 100)))

\* a log of more than 100 lines whose first header lies before the window
\* has been read and answered
C1_Witness ==
    \E id \in LogsAnswers :
        /\ Len(handlers[id].all_lines) > 100
        /\ IsHeader(handlers[id].all_lines[1])
        /\ ~IsHeader(handlers[id].all_lines[2])
        /\ handlers[id].pending # JArray(<<>>)

\* C2: every entry returned for a log file is one header line of that file:
\* its timestamp and level, and as message the header's captured text plus
\* the text of every non-blank line that follows it up to the next header or
\* the end of the file, joined by newlines; the entries are the file's last
\* headers in file order. Blank lines, and lines before the first header,
\* appear in no message.
C2_EntriesAreHeaderBlocks ==
    \A id \in LogsAnswers :
        LET lines == handlers[id].all_lines
            m == Matches(lines)
            at == HeaderPositions(m)
            got == handlers[id].pending.array
            skip == Len(at) - Len(got)
        IN  /\ skip >= 0
            /\ \A k \in 1..Len(got) : got[k] = EntryAt(lines, m, at[skip + k])

\* a log with a line before its first header, a header, a blank line and a
\* continuation line has been read and answered
C2_Witness ==
    \E id \in LogsAnswers :
        LET lines == handlers[id].all_lines
        IN  /\ Len(lines) >= 3
            /\ ~IsHeader(lines[1])
            /\ \E i \in 2..Len(lines) : IsHeader(lines[i]) /\ i < Len(lines)
            /\ \E i \in 1..Len(lines) : lines[i] = LnBlank
            /\ \E k \in 1..Len(handlers[id].pending.array) :
                  \E c \in 1..Len(handlers[id].pending.array[k].message) :
                      handlers[id].pending.array[k].message[c] = "\n"


(* ====================================================================== *)
(*                     what the clients were sent                         *)
(* ====================================================================== *)

Path(e) == UrlPath(Chars(e.target))

Is(e, method, path) == e.method = method /\ Path(e) = Chars(path)

Heads(e) == SelectSeq(e.wire, LAMBDA w : w.kind = "head")

\* one complete JSON response, and nothing else, was written
AnsweredWith(e, status, data) ==
    e.wire = << HeadEvent(status, JsonHeaders), BodyEvent(data) >>

Raises(e, exc) == \E k \in 1..Len(e.excs) : e.excs[k] = exc

\* served[j] is the first GET of path handled after served[i]
NextGetAfter(i, j, path) ==
    /\ i < j
    /\ Is(served[j], "GET", path)
    /\ \A k \in (i + 1)..(j - 1) : ~Is(served[k], "GET", path)

Cleared(message) == JObject([cleared |-> TRUE, message |-> message])

\* C3, as claimed: after a DELETE /api/history has been handled, the next
\* GET /api/history returns [] with status 200.
C3_GetAfterDeleteIsEmpty ==
    \A i, j \in 1..Len(served) :
        Is(served[i], "DELETE", "/api/history") /\ NextGetAfter(i, j, "/api/history")
            => AnsweredWith(served[j], 200, JArray(<<>>))

\* C3, amended: after a DELETE /api/history that was answered 200, the next
\* GET /api/history returns [] with status 200, provided the pipeline has not
\* written the history file since the DELETE opened it.
C3_GetAfterClearedIsEmpty ==
    \A i, j \in 1..Len(served) :
        /\ Is(served[i], "DELETE", "/api/history")
        /\ AnsweredWith(served[i], 200, Cleared("History cleared"))
        /\ NextGetAfter(i, j, "/api/history")
        /\ served[j].histAt = served[i].openedAt
        => AnsweredWith(served[j], 200, JArray(<<>>))

\* the pipeline wrote the history file, a DELETE cleared it, and a GET was
\* handled with no write in between
C3_Witness ==
    \E i, j \in 1..Len(served) :
        /\ Is(served[i], "DELETE", "/api/history")
        /\ AnsweredWith(served[i], 200, Cleared("History cleared"))
        /\ NextGetAfter(i, j, "/api/history")
        /\ served[i].openedAt = 1
        /\ served[j].histAt = 1

\* C4: after a DELETE /api/logs that was answered 200, the next GET /api/logs
\* returns [] with status 200 when the pipeline has appended nothing to the
\* log since the DELETE truncated it.
C4_GetAfterClearedIsEmpty ==
    \A i, j \in 1..Len(served) :
        /\ Is(served[i], "DELETE", "/api/logs")
        /\ AnsweredWith(served[i], 200, Cleared("Logs cleared"))
        /\ NextGetAfter(i, j, "/api/logs")
        /\ served[j].logAt = served[i].openedAt
        => AnsweredWith(served[j], 200, JArray(<<>>))

\* C5: a GET /api/status that finds the status file absent, when it tests for
\* it or when it opens it, is answered 200 with the idle snapshot, never with
\* an error.
C5_AbsentStatusIsIdle ==
    \A i \in 1..Len(served) :
        Is(served[i], "GET", "/api/status") /\ Raises(served[i], "FileNotFoundError")
            => AnsweredWith(served[i], 200, IdleStatus)

(* ------------------------------ routes -------------------------------- *)

\* the routes the interface lists
GetPaths ==
    { "/", "/api/status", "/api/history", "/api/logs", "/api/health", "/api/report" }

Routed(e) ==
    \/ e.method = "OPTIONS"
    \/ e.method = "GET" /\ \E p \in GetPaths : Path(e) = Chars(p)
    \/ e.method = "GET" /\ StartsWith(Path(e), Chars("/api/folders/"))
    \/ e.method = "DELETE" /\ Path(e) \in { Chars("/api/history"), Chars("/api/logs") }

\* C6, as claimed: every request that matches no route, under any method, is
\* answered 404 with {error: "Not found"}.
C6_UnroutedIsNotFound ==
    \A i \in 1..Len(served) :
        ~Routed(served[i]) => AnsweredWith(served[i], 404, NotFound)

\* C6, amended: every GET or DELETE request whose path matches no route is
\* answered 404 with {error: "Not found"}; a request under a method other
\* than GET, DELETE and OPTIONS is answered 501 with the base handler's HTML
\* error page, whatever its path.
C6_UnroutedGetDeleteIsNotFound ==
    \A i \in 1..Len(served) :
        LET e == served[i]
        IN  /\ e.method \in {"GET", "DELETE"} /\ ~Routed(e)
                => AnsweredWith(e, 404, NotFound)
            /\ e.method \notin {"GET", "DELETE", "OPTIONS"}
                => e.wire = << HeadEvent(501, ErrorPageHeaders),
                               BodyEvent(JObject([html |-> "Unsupported method"])) >>

\* a DELETE of a path that only GET routes, and a GET of an unlisted path that
\* extends a listed one, were answered
C6_Witness ==
    \E i \in 1..Len(served) :
        \/ Is(served[i], "DELETE", "/api/status")
        \/ Is(served[i], "GET", "/api/statusx")

(* ------------------------------ headers ------------------------------- *)

\* every request handled or in handling
Exchanges ==
    { served[i] : i \in 1..Len(served) }
        \cup { [method |-> handlers[id].method, target |-> handlers[id].target,
                wire |-> handlers[id].wire, excs |-> handlers[id].excs,
                openedAt |-> handlers[id].openedAt,
                histAt |-> extHistWrites, logAt |-> extLogAppends] :
               id \in DOMAIN handlers }

HeadersOf(e) == { Heads(e)[k].headers : k \in 1..Len(Heads(e)) }

\* C7, as claimed: every response, OPTIONS and errors included, carries the
\* three Access-Control headers and Content-Type: application/json.
C7_AllResponsesCarryAllHeaders ==
    \A e \in Exchanges : \A hs \in HeadersOf(e) : JsonHeaders \subseteq hs

\* C7, amended: every response to a GET or DELETE request, success or error,
\* carries the three Access-Control headers and Content-Type:
\* application/json; the OPTIONS response carries the three Access-Control
\* headers and no Content-Type; the 501 answer to any other method carries
\* none of the Access-Control headers and Content-Type: text/html.
C7_HeadersByMethod ==
    \A e \in Exchanges : \A hs \in HeadersOf(e) :
        CASE e.method \in {"GET", "DELETE"} ->
                /\ <<"Content-Type", "application/json">> \in hs
                /\ <<"Access-Control-Allow-Origin", "*">> \in hs
                /\ <<"Access-Control-Allow-Methods", "GET, DELETE, OPTIONS">> \in hs
                /\ <<"Access-Control-Allow-Headers", "Content-Type">> \in hs
          [] e.method = "OPTIONS" ->
                /\ <<"Access-Control-Allow-Origin", "*">> \in hs
                /\ <<"Access-Control-Allow-Methods", "GET, DELETE, OPTIONS">> \in hs
                /\ <<"Access-Control-Allow-Headers", "Content-Type">> \in hs
                /\ \A h \in hs : h[1] # "Content-Type"
          [] OTHER ->
                /\ <<"Content-Type", "text/html;charset=utf-8">> \in hs
                /\ \A h \in hs : h[1] \notin { "Access-Control-Allow-Origin",
                                               "Access-Control-Allow-Methods",
                                               "Access-Control-Allow-Headers" }

\* an error response to a GET was sent
C7_Witness ==
    \E i \in 1..Len(served) :
        /\ served[i].method = "GET"
        /\ \E k \in 1..Len(served[i].wire) :
              served[i].wire[k].kind = "head" /\ served[i].wire[k].status = 500

(* ----------------------------- exceptions ----------------------------- *)

IsErrorBody(w) ==
    /\ w.kind = "body"
    /\ DOMAIN w.data = {"object"}
    /\ "error" \in DOMAIN w.data.object

\* C8: a GET or DELETE request during whose handling an exception was raised
\* gets exactly one response, with status 500 and body {error: <message>};
\* nothing of another response is written for it.
C8_ExceptionGivesOne500 ==
    \A i \in 1..Len(served) :
        served[i].method \in {"GET", "DELETE"} /\ served[i].excs # <<>>
            => /\ Len(served[i].wire) = 2
               /\ served[i].wire[1] = HeadEvent(500, JsonHeaders)
               /\ IsErrorBody(served[i].wire[2])

(* ------------------------------ folders ------------------------------- *)

\* what follows the prefix /api/folders/ in a path that starts with it
Remainder(path) == SubSeq(path, Len(Chars("/api/folders/")) + 1, Len(path))

Listable(name) ==
    \E k \in FolderNames : Chars(k) = name /\ ConfiguredPath(k) # ""

\* C9: a GET of a path that starts with /api/folders/ takes as folder name
\* all that follows the prefix, and is answered 400 with an error payload
\* unless that remainder is one of the five names with a configured path.
C9_FolderNameIsRemainder ==
    \A i \in 1..Len(served) :
        LET e == served[i]
        IN  /\ e.method = "GET"
            /\ StartsWith(Path(e), Chars("/api/folders/"))
            /\ ~Listable(Remainder(Path(e)))
            => /\ Len(e.wire) = 2
               /\ e.wire[1] = HeadEvent(400, JsonHeaders)
               /\ IsErrorBody(e.wire[2])

(* ----------------------------- scheduling ----------------------------- *)

\* C10, as claimed: a request that has arrived can be accepted and handled
\* whatever the handlers of other requests are doing.
C10_NoRequestWaits == backlog # <<>> => ENABLED AcceptRequest

\* C10, amended: requests are handled one at a time, in the single thread
\* that runs the server beside the host process: at most one request is in
\* handling at any moment, and a request that arrives while another is being
\* handled is not accepted until that handling has returned.
C10_OneRequestAtATime ==
    /\ Cardinality(DOMAIN handlers) <= 1
    /\ backlog # <<>> /\ DOMAIN handlers # {} => ~ENABLED AcceptRequest

\* a request waits while the handler of another is between its test for the
\* file and its read
C10_Witness ==
    /\ backlog # <<>>
    /\ \E id \in DOMAIN handlers : handlers[id].pc \in {"status_read", "history_read"}

=============================================================================
